---- MODULE Spec2Model ----
(***************************************************************************)
(* Batch exports service (posthog/batch_exports/service.py), the Temporal  *)
(* activities that call back into it (posthog/temporal/workflows/base.py)  *)
(* and the Temporal engine and relational store they talk to.              *)
(*                                                                         *)
(* Optional values (Python None / SQL NULL) are sequences of length <= 1:  *)
(* None is <<>> and a present value v is <<v>>.                            *)
(***************************************************************************)
EXTENDS Integers, Sequences, FiniteSets, TLC

\* ---------------------------------------------------------------- bounds
\* Number of BatchExportRun rows the store may hold.
MaxRuns == 2

\* ------------------------------------------------------------ vocabulary
None == <<>>
Some(v) == <<v>>

\* Most dashboard tiles the table holds.
MaxTiles == 4

\* Length of a page of tiles: the slice [0:100], scaled to MaxTiles.
PageSize == 2

\* Rows of the DashboardTile table, by id.
TileIds == 1..MaxTiles

\* Concurrent callers of the service (API requests).
Callers == {"c1", "c2"}

\* Rows of the BatchExport table, and one id that has no row.
BatchExportIds == {"E1", "E2"}
MissingId == "E3"
AllIds == BatchExportIds \cup {MissingId}

\* batch_export.team.id of each BatchExport row; Teams are the Team rows.
TeamOf == ("E1" :> "T1") @@ ("E2" :> "T2")
Teams == {"T1", "T2"}

\* Identifiers the engine may be handed as a schedule id.
ScheduleIds == AllIds \cup Teams

\* batch_export.destination.config, an open mapping that is passed on as
\* keyword arguments of the workflow inputs.
ConfigOf == ("E1" :> [bucket_name |-> "bucket-1"]) @@ ("E2" :> [bucket_name |-> "bucket-2"])

\* batch_export.destination.type values a row may carry.
DestinationTypes == {"S3", "Snowflake"}

\* DESTINATION_WORKFLOWS: destination type -> (workflow, inputs dataclass).
DESTINATION_WORKFLOWS == ("S3" :> <<"s3-export", "S3BatchExportInputs">>)

\* Variant: DESTINATION_WORKFLOWS.get(type, <the S3 entry>), which never raises.
RegistryLookupDefault(type) ==
    IF type \in DOMAIN DESTINATION_WORKFLOWS
    THEN Some(DESTINATION_WORKFLOWS[type])
    ELSE Some(DESTINATION_WORKFLOWS["S3"])

\* DESTINATION_WORKFLOWS[type]: the pair, or None when the subscript raises
\* KeyError.
RegistryLookup(type) ==
    IF type \in DOMAIN DESTINATION_WORKFLOWS
    THEN Some(DESTINATION_WORKFLOWS[type])
    ELSE None

\* The S3BatchExportInputs dataclass as the two callers construct it: the
\* fields they pass, and the defaults of the fields they leave out.
S3BatchExportInputs(team_id, batch_export_id, data_interval_end, config) ==
    [ bucket_name       |-> config.bucket_name,
      team_id           |-> team_id,
      batch_export_id   |-> batch_export_id,
      table_name        |-> "events",
      file_format       |-> "CSVWithNames",
      data_interval_end |-> data_interval_end ]

\* Variant: create_schedule wrapped in try/except that passes on a conflict.
EngineErrorConflictPasses(response) ==
    CASE response = "not_found"      -> "ScheduleNotFound"
      [] response = "already_exists" -> "returned"
      [] OTHER                       -> "RPCError"

\* The exception a failed engine call raises through async_to_sync.
EngineError(response) ==
    CASE response = "not_found"      -> "ScheduleNotFound"
      [] response = "already_exists" -> "ScheduleAlreadyRunningError"
      [] OTHER                       -> "RPCError"

VARIABLES
    batch_exports,  \* BatchExport rows: id -> [paused, type]
    schedules,      \* engine: schedule id -> None | Some(schedule)
    runs,           \* BatchExportRun rows, in insertion order
    executions,     \* engine: direct workflow executions it accepted
    inflight,       \* caller -> the pause/unpause it is in the middle of
    last,           \* the step taken last: operation, arguments, outcome
    created,        \* per schedule: paused flag it was created with, and
                    \* whether a pause/unpause touched it since
    engineFailed,   \* some engine call has failed
    tiles,          \* DashboardTile rows: id -> filters_hash, None when unset
    redis,          \* value under REDIS_HIGHWATERMARK_KEY, None when absent
    operation,      \* index of the migration operation to run next
    page            \* tiles left to save in the page being processed

migration == <<tiles, redis, operation, page>>

vars == <<batch_exports, schedules, runs, executions, inflight, last, created, engineFailed,
          tiles, redis, operation, page>>

Idle == [op |-> "idle", id |-> "", before |-> None]

Step(op, args, outcome, reqs, ret) ==
    [op |-> op, args |-> args, outcome |-> outcome, reqs |-> reqs, ret |-> ret]

Init ==
    /\ batch_exports \in [BatchExportIds -> [paused : BOOLEAN, type : DestinationTypes]]
    /\ schedules = [id \in ScheduleIds |-> None]
    /\ runs = <<>>
    /\ executions = {}
    /\ inflight = [c \in Callers |-> Idle]
    /\ last = Step("init", [id |-> ""], "returned", <<>>, None)
    /\ created = [id \in BatchExportIds |-> None]
    /\ engineFailed = FALSE
    /\ tiles = [t \in TileIds |-> Some("hash")]
    /\ redis = None
    /\ operation = 1
    /\ page = None

Failed(reqs) == \E i \in 1..Len(reqs) : reqs[i].response # "ok"

\* ------------------------------------------------------- schedule manager

\* Variant: the update without its filter, BatchExport.objects.update(paused=flag).
SetPausedFlagAllRows(rows, id, flag) ==
    [e \in DOMAIN rows |-> [rows[e] EXCEPT !.paused = flag]]

\* BatchExport.objects.filter(id=batch_export_id).update(paused=flag)
SetPausedFlag(rows, id, flag) ==
    [e \in DOMAIN rows |-> IF e = id THEN [rows[e] EXCEPT !.paused = flag] ELSE rows[e]]

\* The engine's answer to handle.pause / handle.unpause / handle.delete /
\* handle.describe on schedule id; unavailable is the transient failure.
HandleResponse(id, unavailable) ==
    IF unavailable THEN "unavailable"
    ELSE IF schedules[id] = None THEN "not_found"
    ELSE "ok"

Touch(id) ==
    IF id \in BatchExportIds /\ created[id] # None
    THEN [created EXCEPT ![id] = Some([created[id][1] EXCEPT !.touched = TRUE])]
    ELSE created

\* pause_batch_export / unpause_batch_export, first statement: the local write.
SetFlagStep(c, id, op, flag) ==
    /\ inflight[c] = Idle
    /\ batch_exports' = SetPausedFlag(batch_exports, id, flag)
    /\ inflight' = [inflight EXCEPT ![c] =
          [op |-> op, id |-> id,
           before |-> IF id \in BatchExportIds THEN Some(batch_exports[id].paused) ELSE None]]
    /\ last' = Step(op \o "_local", [id |-> id], "running", <<>>, None)
    /\ created' = Touch(id)
    /\ UNCHANGED <<schedules, runs, executions, engineFailed, migration>>

\* pause_schedule / unpause_schedule: the engine call, whose failure propagates.
ScheduleStateStep(c, op, flag, unavailable) ==
    /\ inflight[c].op = op
    /\ LET id == inflight[c].id
           response == HandleResponse(id, unavailable)
           reqs == <<[kind |-> op, id |-> id, response |-> response]>>
       IN /\ schedules' = IF response = "ok"
                          THEN [schedules EXCEPT ![id] = Some([schedules[id][1] EXCEPT !.paused = flag])]
                          ELSE schedules
          /\ last' = Step(op, [id |-> id, before |-> inflight[c].before],
                          IF response = "ok" THEN "returned" ELSE EngineError(response),
                          reqs, None)
          /\ created' = Touch(id)
          /\ engineFailed' = (engineFailed \/ Failed(reqs))
    /\ inflight' = [inflight EXCEPT ![c] = Idle]
    /\ UNCHANGED <<batch_exports, runs, executions, migration>>

\* Variant: pause_batch_export writing the flag of its unpause twin.
PauseLocalWritesFalse(c, id) == SetFlagStep(c, id, "pause", FALSE)

\* Variant: unpause_batch_export writing the flag of its pause twin.
UnpauseLocalWritesTrue(c, id) == SetFlagStep(c, id, "unpause", TRUE)

PauseLocal(c, id) == SetFlagStep(c, id, "pause", TRUE)
PauseSchedule(c, unavailable) == ScheduleStateStep(c, "pause", TRUE, unavailable)
UnpauseLocal(c, id) == SetFlagStep(c, id, "unpause", FALSE)
UnpauseSchedule(c, unavailable) == ScheduleStateStep(c, "unpause", FALSE, unavailable)

\* Variant: ScheduleState(note=...) with paused left at its default.
ScheduleStateDefault(batch_export) == [paused |-> FALSE]

\* ScheduleState(note=..., paused=batch_export.paused)
ScheduleState(batch_export) == [paused |-> batch_export.paused]

\* Variant: id=str(batch_export.team.id), the schedule named after the team.
ScheduleIdFromTeam(batch_export_id) == TeamOf[batch_export_id]

\* id=str(batch_export.id) of create_schedule: the schedule's id.
ScheduleId(batch_export_id) == batch_export_id

\* id=str(batch_export.id) of ScheduleActionStartWorkflow: the action's id.
ActionId(batch_export_id) == batch_export_id

\* The workflow inputs create_batch_export puts in the schedule's action.
CreateInputs(batch_export_id) ==
    S3BatchExportInputs(TeamOf[batch_export_id], batch_export_id, None, ConfigOf[batch_export_id])

\* create_batch_export(batch_export) for the row with this id.
CreateBatchExport(id, unavailable) ==
    LET batch_export == batch_exports[id]
        lookup == RegistryLookup(batch_export.type)
        schedule_id == ScheduleId(id)
    IN IF lookup = None
       THEN /\ last' = Step("create", [id |-> id], "KeyError", <<>>, None)
            /\ UNCHANGED <<batch_exports, schedules, runs, executions, inflight, created, engineFailed, migration>>
       ELSE LET workflow == lookup[1][1]
                schedule == [ workflow  |-> workflow,
                              input     |-> CreateInputs(id),
                              action_id |-> ActionId(id),
                              paused    |-> ScheduleState(batch_export).paused ]
                response == IF unavailable THEN "unavailable"
                            ELSE IF schedules[schedule_id] # None THEN "already_exists"
                            ELSE "ok"
                reqs == <<[kind |-> "create_schedule", id |-> schedule_id, schedule |-> schedule,
                           response |-> response]>>
            IN /\ schedules' = IF response = "ok"
                               THEN [schedules EXCEPT ![schedule_id] = Some(schedule)]
                               ELSE schedules
               /\ created' = IF response = "ok"
                             THEN [created EXCEPT ![id] =
                                     Some([paused |-> batch_export.paused, touched |-> FALSE])]
                             ELSE created
               /\ last' = Step("create", [id |-> id],
                               IF response = "ok" THEN "returned" ELSE EngineError(response),
                               reqs, None)
               /\ engineFailed' = (engineFailed \/ Failed(reqs))
               /\ UNCHANGED <<batch_exports, runs, executions, inflight, migration>>

\* Variant: the delete that also removes the run rows of the BatchExport.
DeleteScheduleAndRuns(id, unavailable) ==
    LET response == HandleResponse(id, unavailable)
        reqs == <<[kind |-> "delete", id |-> id, response |-> response]>>
    IN /\ schedules' = IF response = "ok" THEN [schedules EXCEPT ![id] = None] ELSE schedules
       /\ created' = IF response = "ok" /\ id \in BatchExportIds
                     THEN [created EXCEPT ![id] = None] ELSE created
       /\ runs' = SelectSeq(runs, LAMBDA r : r.batch_export_id # id)
       /\ last' = Step("delete", [id |-> id],
                       IF response = "ok" THEN "returned" ELSE EngineError(response),
                       reqs, None)
       /\ engineFailed' = (engineFailed \/ Failed(reqs))
       /\ UNCHANGED <<batch_exports, executions, inflight, migration>>

\* delete_schedule(temporal, schedule_id)
DeleteSchedule(id, unavailable) ==
    LET response == HandleResponse(id, unavailable)
        reqs == <<[kind |-> "delete", id |-> id, response |-> response]>>
    IN /\ schedules' = IF response = "ok" THEN [schedules EXCEPT ![id] = None] ELSE schedules
       /\ created' = IF response = "ok" /\ id \in BatchExportIds
                     THEN [created EXCEPT ![id] = None] ELSE created
       /\ last' = Step("delete", [id |-> id],
                       IF response = "ok" THEN "returned" ELSE EngineError(response),
                       reqs, None)
       /\ engineFailed' = (engineFailed \/ Failed(reqs))
       /\ UNCHANGED <<batch_exports, runs, executions, inflight, migration>>

\* describe_schedule(temporal, schedule_id): the engine's view of the schedule.
DescribeSchedule(id, unavailable) ==
    LET response == HandleResponse(id, unavailable)
        reqs == <<[kind |-> "describe", id |-> id, response |-> response]>>
    IN /\ last' = Step("describe", [id |-> id],
                       IF response = "ok" THEN "returned" ELSE EngineError(response),
                       reqs,
                       IF response = "ok" THEN schedules[id] ELSE None)
       /\ engineFailed' = (engineFailed \/ Failed(reqs))
       /\ UNCHANGED <<batch_exports, schedules, runs, executions, inflight, created, migration>>

\* ---------------------------------------------------- backfill orchestrator

\* Primary key of the n-th BatchExportRun row (a UUID, here in its str() form).
RunPk(n) == "r" \o ToString(n)

\* (start_at, end_at) arguments of backfill_export; both default to None.
BackfillIntervals ==
    { <<None, None>>, <<Some("2023-01-01 00:00:00"), Some("2023-01-02 00:00:00")>> }

\* Variant: the row created with the ids of the execution about to be requested.
BackfillRunWithIds(pk, batch_export_id, start_at, end_at) ==
    [ id                  |-> pk,
      team_id             |-> None,
      batch_export_id     |-> batch_export_id,
      workflow_id         |-> Some(pk),
      run_id              |-> Some("run-of-" \o pk),
      status              |-> "",
      data_interval_start |-> start_at,
      data_interval_end   |-> end_at ]

\* BatchExportRun.objects.create(batch_export=..., data_interval_start=...,
\* data_interval_end=...): the fields left out keep the column defaults.
BackfillRun(pk, batch_export_id, start_at, end_at) ==
    [ id                  |-> pk,
      team_id             |-> None,
      batch_export_id     |-> batch_export_id,
      workflow_id         |-> None,
      run_id              |-> None,
      status              |-> "",
      data_interval_start |-> start_at,
      data_interval_end   |-> end_at ]

\* The inputs backfill_export hands to execute_workflow.
BackfillInputs(batch_export_id, end_at) ==
    S3BatchExportInputs(batch_export_id, batch_export_id, end_at, ConfigOf[batch_export_id])

\* temporal.execute_workflow(workflow, inputs, task_queue=..., id=...) on the
\* client sync_connect() returns: the engine accepts the execution request and
\* the call returns while the workflow runs on its own, or the call fails.
ExecuteWorkflow(unavailable) == IF unavailable THEN "unavailable" ELSE "ok"

\* Variant: the run row created and returned with the execute_workflow call
\* left out.
BackfillExportNoLaunch(batch_export_id, interval, unavailable) ==
    /\ batch_export_id \in BatchExportIds
    /\ Len(runs) < MaxRuns
    /\ runs' = Append(runs, BackfillRun(RunPk(Len(runs) + 1), batch_export_id,
                                        interval[1], interval[2]))
    /\ last' = Step("backfill",
                    [id |-> batch_export_id, start_at |-> interval[1], end_at |-> interval[2]],
                    "returned", <<>>, Some(RunPk(Len(runs) + 1)))
    /\ UNCHANGED <<batch_exports, schedules, executions, inflight, created, engineFailed, migration>>

\* Variant: the backfill run by un-pausing the recurring schedule instead of a
\* direct execution.
BackfillExportViaSchedule(batch_export_id, interval, unavailable) ==
    /\ batch_export_id \in BatchExportIds
    /\ schedules[batch_export_id] # None
    /\ Len(runs) < MaxRuns
    /\ runs' = Append(runs, BackfillRun(RunPk(Len(runs) + 1), batch_export_id,
                                        interval[1], interval[2]))
    /\ schedules' = [schedules EXCEPT ![batch_export_id] =
                        Some([schedules[batch_export_id][1] EXCEPT !.paused = FALSE])]
    /\ last' = Step("backfill",
                    [id |-> batch_export_id, start_at |-> interval[1], end_at |-> interval[2]],
                    "returned", <<>>, None)
    /\ UNCHANGED <<batch_exports, executions, inflight, created, engineFailed, migration>>

\* backfill_export(batch_export_id, start_at, end_at)
BackfillExport(batch_export_id, interval, unavailable) ==
    LET start_at == interval[1]
        end_at == interval[2]
        args == [id |-> batch_export_id, start_at |-> start_at, end_at |-> end_at]
    IN IF batch_export_id \notin BatchExportIds
       THEN \* BatchExport.objects.get raises
            /\ last' = Step("backfill", args, "DoesNotExist", <<>>, None)
            /\ UNCHANGED <<batch_exports, schedules, runs, executions, inflight, created, engineFailed, migration>>
       ELSE /\ Len(runs) < MaxRuns
            /\ LET pk == RunPk(Len(runs) + 1)
                   backfill_run == BackfillRun(pk, batch_export_id, start_at, end_at)
                   lookup == RegistryLookup(batch_exports[batch_export_id].type)
                   response == ExecuteWorkflow(unavailable)
               IN /\ runs' = Append(runs, backfill_run)
                  /\ IF lookup = None
                     THEN /\ last' = Step("backfill", args, "KeyError", <<>>, None)
                          /\ UNCHANGED executions
                     ELSE LET request == [ kind     |-> "execute_workflow",
                                           id       |-> pk,
                                           workflow |-> lookup[1][1],
                                           input    |-> BackfillInputs(batch_export_id, end_at),
                                           response |-> response ]
                          IN /\ executions' = IF response = "ok"
                                              THEN executions \cup
                                                     {[id |-> pk, workflow |-> request.workflow,
                                                       input |-> request.input]}
                                              ELSE executions
                             /\ last' = Step("backfill", args,
                                             IF response = "ok" THEN "returned"
                                             ELSE EngineError(response),
                                             <<request>>,
                                             IF response = "ok" THEN Some(pk) ELSE None)
            /\ UNCHANGED <<batch_exports, schedules, inflight, created, engineFailed, migration>>

\* ---------------------------------------------------- run lifecycle tracker

Statuses == {"Starting", "Running", "Completed", "Failed", "Cancelled"}
Terminal == {"Completed", "Failed", "Cancelled"}

\* dt.datetime.fromisoformat(s): the datetime, or None when it raises ValueError.
FromIsoFormat(s) ==
    CASE s = "2023-01-01T00:00:00" -> Some("2023-01-01 00:00:00")
      [] s = "2023-01-02T00:00:00" -> Some("2023-01-02 00:00:00")
      [] OTHER -> None

\* (data_interval_start, data_interval_end) strings a workflow sends.
IsoIntervals ==
    { <<"2023-01-01T00:00:00", "2023-01-02T00:00:00">>, <<"2023-01-01T00:00:00", "tomorrow">> }

\* Workflow id Temporal gives the execution a schedule starts: the action's id
\* with the scheduled time appended.
ScheduledWorkflowId(action_id) == action_id \o "-2023-01-02T00:00:00Z"

\* Run id the engine assigns to the execution with this workflow id.
WorkflowRunId(workflow_id) == "run-of-" \o workflow_id

\* Executions whose workflow may call the activities: the direct executions
\* the engine accepted and the ticks of the schedules that are not paused.
WorkflowExecutions ==
    { [workflow_id |-> x.id, run_id |-> WorkflowRunId(x.id), input |-> x.input] : x \in executions }
    \cup
    { [workflow_id |-> ScheduledWorkflowId(schedules[id][1].action_id),
       run_id      |-> WorkflowRunId(ScheduledWorkflowId(schedules[id][1].action_id)),
       input       |-> schedules[id][1].input] :
         id \in {e \in BatchExportIds : schedules[e] # None /\ ~schedules[e][1].paused} }

\* create_batch_export_run(team_id, workflow_id, run_id, batch_export_id,
\* data_interval_start, data_interval_end): a row is inserted on every call.
CreateBatchExportRun(team_id, workflow_id, run_id, batch_export_id, data_interval_start, data_interval_end) ==
    LET args == [workflow_id |-> workflow_id, run_id |-> run_id]
        start == FromIsoFormat(data_interval_start)
        end == FromIsoFormat(data_interval_end)
    IN IF team_id \notin Teams
       THEN \* Team.objects.get raises
            /\ last' = Step("create_run", args, "DoesNotExist", <<>>, None)
            /\ UNCHANGED runs
       ELSE IF start = None \/ end = None
       THEN /\ last' = Step("create_run", args, "ValueError", <<>>, None)
            /\ UNCHANGED runs
       ELSE /\ Len(runs) < MaxRuns
            /\ LET pk == RunPk(Len(runs) + 1)
                   run == [ id                  |-> pk,
                            team_id             |-> Some(team_id),
                            batch_export_id     |-> batch_export_id,
                            workflow_id         |-> Some(workflow_id),
                            run_id              |-> Some(run_id),
                            status              |-> "Starting",
                            data_interval_start |-> start,
                            data_interval_end   |-> end ]
               IN /\ runs' = Append(runs, run)
                  /\ last' = Step("create_run", args, "returned", <<>>, Some(pk))

\* The create_export_run activity, run (and re-run on redelivery) by the
\* workflow of execution x.
CreateExportRun(x, iso) ==
    /\ x \in WorkflowExecutions
    /\ CreateBatchExportRun(x.input.team_id, x.workflow_id, x.run_id,
                            x.input.batch_export_id, iso[1], iso[2])
    /\ UNCHANGED <<batch_exports, schedules, executions, inflight, created, engineFailed, migration>>

\* Variant: BatchExportRun.objects.update_or_create(id=run_id, status=status).
UpdateOrCreateStatus(rows, run_id, status) ==
    IF \E i \in 1..Len(rows) : rows[i].id = run_id
    THEN [i \in 1..Len(rows) |-> IF rows[i].id = run_id THEN [rows[i] EXCEPT !.status = status] ELSE rows[i]]
    ELSE Append(rows, [ id |-> run_id, team_id |-> None, batch_export_id |-> "",
                        workflow_id |-> None, run_id |-> None, status |-> status,
                        data_interval_start |-> None, data_interval_end |-> None ])

\* BatchExportRun.objects.filter(id=run_id).update(status=status): the rows
\* after the update.
UpdateStatus(rows, run_id, status) ==
    [i \in 1..Len(rows) |-> IF rows[i].id = run_id THEN [rows[i] EXCEPT !.status = status] ELSE rows[i]]

\* update_batch_export_run_status(run_id, status)
UpdateBatchExportRunStatus(run_id, status) ==
    LET updated == Cardinality({i \in 1..Len(runs) : runs[i].id = run_id})
    IN /\ runs' = UpdateStatus(runs, run_id, status)
       /\ last' = Step("update_status", [run_id |-> run_id],
                       IF updated = 0 THEN "ValueError" ELSE "returned", <<>>, None)
       /\ UNCHANGED <<batch_exports, schedules, executions, inflight, created, engineFailed, migration>>

\* Parameter names of update_batch_export_run_status(run_id, status).
UpdateBatchExportRunStatusParams == {"run_id", "status"}

\* Keyword names the update_export_run_status activity calls it with.
UpdateExportRunStatusKeywords == {"id", "status"}

\* UUID(s): whether s parses; the ids of run rows are UUIDs in str() form.
IsUuid(s) == \E n \in 1..(MaxRuns + 1) : s = RunPk(n)

\* The update_export_run_status activity with inputs (id, status):
\* await update_batch_export_run_status(id=UUID(inputs.id), status=inputs.status).
\* A keyword that is no parameter of the callee raises TypeError before its
\* body runs; the callee returns None, which cannot be awaited.
UpdateExportRunStatus(id, status) ==
    LET args == [run_id |-> id, status |-> status]
        updated == Cardinality({i \in 1..Len(runs) : runs[i].id = id})
    IN /\ IF ~IsUuid(id)
          THEN /\ last' = Step("update_export_run_status", args, "ValueError", <<>>, None)
               /\ UNCHANGED runs
          ELSE IF ~(UpdateExportRunStatusKeywords \subseteq UpdateBatchExportRunStatusParams)
          THEN /\ last' = Step("update_export_run_status", args, "TypeError", <<>>, None)
               /\ UNCHANGED runs
          ELSE /\ runs' = UpdateStatus(runs, id, status)
               /\ last' = Step("update_export_run_status", args,
                               IF updated = 0 THEN "ValueError" ELSE "TypeError", <<>>, None)
       /\ UNCHANGED <<batch_exports, schedules, executions, inflight, created, engineFailed, migration>>

\* --------------------------------------------------- dashboard-tile migration

service == <<batch_exports, schedules, runs, executions, inflight, created, engineFailed>>

\* DashboardTile.objects.filter(filters_hash=None)
TilesWithNoHash == {t \in TileIds : tiles[t] = None}

\* .order_by("id"): the tiles of S in ascending id order.
OrderById(S) ==
    CHOOSE q \in [1..Cardinality(S) -> S] :
        \A i, j \in 1..Cardinality(S) : i < j => q[i] < q[j]

\* tiles_with_no_hash[0:100]
PageOf(q) == SubSeq(q, 1, IF Len(q) < PageSize THEN Len(q) ELSE PageSize)

IsRequired == Cardinality(TilesWithNoHash) > 0

\* The migration's operations, in the order they run; operation is the index
\* of the next one, Len(Operations) + 1 once all have completed.
Operations == <<"set_high_watermark", "set_filters_hashes", "unset_high_watermark">>
Completed == Len(Operations) + 1

\* Redis keeps the count it is given as its decimal text; int() reads it back.
RedisText(n) == ToString(n)
ParseInt(text) == CHOOSE n \in 0..MaxTiles : ToString(n) = text

GetHighWatermark == IF redis # None THEN ParseInt(redis[1]) ELSE 0

\* Variant: the count is stored whether or not a watermark is there already.
SetHighWatermarkAlways ==
    /\ operation = 1
    /\ redis' = Some(RedisText(Cardinality(TilesWithNoHash)))
    /\ operation' = 2
    /\ last' = Step("set_high_watermark", [id |-> ""], "returned", <<>>, None)
    /\ UNCHANGED <<tiles, page, service>>

SetHighWatermark ==
    /\ operation = 1
    /\ redis' = IF GetHighWatermark = 0
                THEN Some(RedisText(Cardinality(TilesWithNoHash)))
                ELSE redis
    /\ operation' = 2
    /\ last' = Step("set_high_watermark", [id |-> ""], "returned", <<>>, None)
    /\ UNCHANGED <<tiles, page, service>>

\* One pass of the loop of set_filters_hashes up to the first save of the
\* page: the query, and the return of False that ends the operation.
SetPageOfFiltersHashes ==
    /\ operation = 2
    /\ page = None
    /\ LET tiles_with_no_hash == OrderById(TilesWithNoHash)
       IN IF Len(tiles_with_no_hash) > 0
          THEN /\ page' = Some(PageOf(tiles_with_no_hash))
               /\ operation' = operation
          ELSE /\ page' = None
               /\ operation' = 3
    /\ last' = Step("set_page", [id |-> ""], "returned", <<>>, None)
    /\ UNCHANGED <<tiles, redis, service>>

\* tile.save(): the hash is set, or the row is left as it was.
Save(t, outcome) ==
    IF outcome = "set" THEN [tiles EXCEPT ![t] = Some("hash")] ELSE tiles

\* The next save of the page. An error of save() leaves the loop and is
\* logged by set_filters_hashes, which then returns: the operation is over.
SaveTile(outcome) ==
    /\ operation = 2
    /\ page # None
    /\ LET t == Head(page[1])
           rest == Tail(page[1])
       IN IF outcome = "raise"
          THEN /\ tiles' = tiles
               /\ page' = None
               /\ operation' = 3
               /\ last' = Step("save", [id |-> ToString(t)], "logged", <<>>, None)
          ELSE /\ tiles' = Save(t, outcome)
               /\ page' = IF rest = <<>> THEN None ELSE Some(rest)
               /\ operation' = operation
               /\ last' = Step("save", [id |-> ToString(t)], "returned", <<>>, None)
    /\ UNCHANGED <<redis, service>>

UnsetHighWatermark ==
    /\ operation = 3
    /\ redis' = None
    /\ operation' = Completed
    /\ last' = Step("unset_high_watermark", [id |-> ""], "returned", <<>>, None)
    /\ UNCHANGED <<tiles, page, service>>

\* int((current_count / starting_count) * 100); the counts of the model are
\* small enough for the float product to truncate as the exact quotient does.
ProgressValue(current_count, starting_count) ==
    (current_count * 100) \div starting_count

Progress ==
    /\ LET current_count == Cardinality(TilesWithNoHash)
           starting_count == GetHighWatermark
       IN last' = IF starting_count = 0
                  THEN Step("progress", [id |-> ""], "ZeroDivisionError", <<>>, None)
                  ELSE Step("progress", [id |-> ""], "returned", <<>>,
                            Some(ProgressValue(current_count, starting_count)))
    /\ UNCHANGED <<tiles, redis, operation, page, service>>

\* The migration is started again from its first operation after it was
\* interrupted.
Restart ==
    /\ operation \in 2..3
    /\ operation' = 1
    /\ page' = None
    /\ last' = Step("restart", [id |-> ""], "returned", <<>>, None)
    /\ UNCHANGED <<tiles, redis, service>>

\* ------------------------------------------------------------ specifications

AllIdle == \A c \in Callers : inflight[c] = Idle

\* Export definitions registered, backfilled and run; calls made one at a time.
Next ==
    \/ \E id \in BatchExportIds, u \in BOOLEAN : CreateBatchExport(id, u)
    \/ \E id \in AllIds, i \in BackfillIntervals, u \in BOOLEAN : BackfillExport(id, i, u)
    \/ \E x \in WorkflowExecutions, iso \in IsoIntervals : CreateExportRun(x, iso)

Spec == Init /\ [][Next]_vars

\* The same, with schedules deleted as well.
NextLifecycle ==
    \/ Next
    \/ \E id \in BatchExportIds, u \in BOOLEAN : DeleteSchedule(id, u)

SpecLifecycle == Init /\ [][NextLifecycle]_vars

\* Runs created by either path and their status updated by any caller.
NextStatus ==
    \/ \E id \in BatchExportIds : CreateBatchExport(id, FALSE)
    \/ \E id \in BatchExportIds : BackfillExport(id, <<None, None>>, FALSE)
    \/ \E x \in WorkflowExecutions, iso \in IsoIntervals : CreateExportRun(x, iso)
    \/ \E n \in 1..(MaxRuns + 1), s \in Statuses : UpdateBatchExportRunStatus(RunPk(n), s)

InitStatus ==
    /\ Init
    /\ batch_exports = ("E1" :> [paused |-> FALSE, type |-> "S3"])
                       @@ ("E2" :> [paused |-> FALSE, type |-> "Snowflake"])

SpecStatus == InitStatus /\ [][NextStatus]_vars

\* The same, with the status updated through the workflow's activity as well.
NextActivity ==
    \/ NextStatus
    \/ \E id \in {RunPk(n) : n \in 1..(MaxRuns + 1)} \cup {"latest"}, s \in Statuses :
          UpdateExportRunStatus(id, s)

SpecActivity == InitStatus /\ [][NextActivity]_vars

\* The schedule manager under concurrent callers.
NextSchedule ==
    \/ \E c \in Callers, id \in BatchExportIds : PauseLocal(c, id)
    \/ \E c \in Callers, u \in BOOLEAN : PauseSchedule(c, u)
    \/ \E c \in Callers, id \in BatchExportIds : UnpauseLocal(c, id)
    \/ \E c \in Callers, u \in BOOLEAN : UnpauseSchedule(c, u)
    \/ \E id \in BatchExportIds, u \in BOOLEAN : CreateBatchExport(id, u)
    \/ \E id \in BatchExportIds, u \in BOOLEAN : DeleteSchedule(id, u)
    \/ \E id \in BatchExportIds, u \in BOOLEAN : DescribeSchedule(id, u)

SpecSchedule == Init /\ [][NextSchedule]_vars

\* Schedules created while no caller is at work, then paused and unpaused by
\* concurrent callers, with an engine that is always available.
NextRace ==
    \/ AllIdle /\ \E id \in BatchExportIds : CreateBatchExport(id, FALSE)
    \/ \E c \in Callers, id \in BatchExportIds : PauseLocal(c, id)
    \/ \E c \in Callers : PauseSchedule(c, FALSE)
    \/ \E c \in Callers, id \in BatchExportIds : UnpauseLocal(c, id)
    \/ \E c \in Callers : UnpauseSchedule(c, FALSE)

SpecRace == Init /\ [][NextRace]_vars

\* The schedule manager with its operations executed one at a time.
NextSequential ==
    \/ AllIdle /\ \E c \in Callers, id \in BatchExportIds : PauseLocal(c, id)
    \/ \E c \in Callers, u \in BOOLEAN : PauseSchedule(c, u)
    \/ AllIdle /\ \E c \in Callers, id \in BatchExportIds : UnpauseLocal(c, id)
    \/ \E c \in Callers, u \in BOOLEAN : UnpauseSchedule(c, u)
    \/ AllIdle /\ \E id \in BatchExportIds, u \in BOOLEAN : CreateBatchExport(id, u)
    \/ AllIdle /\ \E id \in BatchExportIds, u \in BOOLEAN : DeleteSchedule(id, u)
    \/ AllIdle /\ \E id \in BatchExportIds, u \in BOOLEAN : DescribeSchedule(id, u)

SpecSequential == Init /\ [][NextSequential]_vars

\* The dashboard-tile migration over any table of tiles: its operations in
\* order, restarts, and progress asked for at any moment.
NextMigration ==
    \/ SetHighWatermark
    \/ SetPageOfFiltersHashes
    \/ \E outcome \in {"set", "unset", "raise"} : SaveTile(outcome)
    \/ UnsetHighWatermark
    \/ Progress
    \/ Restart

InitMigration ==
    /\ batch_exports = ("E1" :> [paused |-> FALSE, type |-> "S3"])
                       @@ ("E2" :> [paused |-> FALSE, type |-> "Snowflake"])
    /\ schedules = [id \in ScheduleIds |-> None]
    /\ runs = <<>>
    /\ executions = {}
    /\ inflight = [c \in Callers |-> Idle]
    /\ last = Step("init", [id |-> ""], "returned", <<>>, None)
    /\ created = [id \in BatchExportIds |-> None]
    /\ engineFailed = FALSE
    /\ tiles \in [TileIds -> {None, Some("hash")}]
    /\ redis = None
    /\ operation = 1
    /\ page = None

SpecMigration == InitMigration /\ [][NextMigration]_vars

\* ------------------------------------------------------------------ claims

RunIds == {runs[i].id : i \in 1..Len(runs)}

\* C1: once a run's status is COMPLETED, FAILED or CANCELLED, no later
\* update_run_status call changes the stored status.
TerminalStatusNeverChanges ==
    [][\A i \in 1..Len(runs) :
          runs[i].status \in Terminal => runs'[i].status = runs[i].status]_vars

\* C2: however often create_run is called with one (workflow_id, run_id)
\* pair, the store holds exactly one run record for the pair.
OneRunPerWorkflowRun ==
    \A i, j \in 1..Len(runs) :
        (/\ runs[i].workflow_id # None
         /\ runs[i].workflow_id = runs[j].workflow_id
         /\ runs[i].run_id = runs[j].run_id) => i = j

\* An execution input carries the interval and the destination configuration.
InputCarries(input, start_at, end_at, config) ==
    /\ start_at # None =>
          /\ "data_interval_start" \in DOMAIN input
          /\ input.data_interval_start = start_at
    /\ input.data_interval_end = end_at
    /\ input.bucket_name = config.bucket_name

\* C3: a backfill that returns has created exactly one run record with the
\* given data_interval_start and data_interval_end, and has issued exactly one
\* execution request whose input carries both bounds and the destination
\* configuration.
BackfillCarriesInterval ==
    [][(last'.op = "backfill" /\ last'.outcome = "returned") =>
          /\ Len(runs') = Len(runs) + 1
          /\ runs'[Len(runs')].data_interval_start = last'.args.start_at
          /\ runs'[Len(runs')].data_interval_end = last'.args.end_at
          /\ Len(last'.reqs) = 1
          /\ last'.reqs[1].kind = "execute_workflow"
          /\ InputCarries(last'.reqs[1].input, last'.args.start_at, last'.args.end_at,
                          ConfigOf[last'.args.id])]_vars

\* C4: backfill on a BatchExport whose destination type is not registered
\* fails with the lookup error and leaves the run records as they were.
UnregisteredBackfillCreatesNoRun ==
    [][(/\ last'.op = "backfill"
        /\ last'.args.id \in BatchExportIds
        /\ batch_exports[last'.args.id].type \notin DOMAIN DESTINATION_WORKFLOWS) =>
          /\ last'.outcome = "KeyError"
          /\ last'.reqs = <<>>
          /\ runs' = runs]_vars

\* The BatchExport a create-schedule or execution request was issued for.
RequestBatchExport(req) ==
    IF req.kind = "create_schedule" THEN req.id ELSE req.input.batch_export_id

Resolved(id, workflow) ==
    /\ batch_exports[id].type \in DOMAIN DESTINATION_WORKFLOWS
    /\ workflow = DESTINATION_WORKFLOWS[batch_exports[id].type][1]

\* C5: every execution request and every create-schedule request issued to
\* the engine is for a BatchExport whose destination type is registered and
\* names the workflow the registry resolves it to; so does everything the
\* engine holds.
RequestsResolved ==
    /\ \A i \in 1..Len(last.reqs) :
          last.reqs[i].kind \in {"create_schedule", "execute_workflow"} =>
             Resolved(RequestBatchExport(last.reqs[i]),
                      IF last.reqs[i].kind = "create_schedule"
                      THEN last.reqs[i].schedule.workflow
                      ELSE last.reqs[i].workflow)
    /\ \A x \in executions : Resolved(x.input.batch_export_id, x.workflow)
    /\ \A id \in BatchExportIds :
          schedules[id] # None => Resolved(id, schedules[id][1].workflow)

\* C5 witness: a backfill has issued its execution request while a schedule
\* exists, and the other BatchExport has an unregistered destination type.
RequestsResolvedWitness ==
    /\ last.op = "backfill"
    /\ Len(last.reqs) = 1
    /\ \E id \in BatchExportIds : schedules[id] # None
    /\ \E id \in BatchExportIds : batch_exports[id].type \notin DOMAIN DESTINATION_WORKFLOWS

\* C6: pause writes the local flag true, then issues exactly one pause request
\* for the schedule with the BatchExport's id; the engine step does not touch
\* the local flag (no rollback), and a failed engine call is raised.
PauseTwoStepWrite ==
    [][/\ last'.op = "pause_local" =>
             /\ batch_exports'[last'.args.id].paused
             /\ last'.reqs = <<>>
       /\ last'.op = "pause" =>
             /\ Len(last'.reqs) = 1
             /\ last'.reqs[1].kind = "pause"
             /\ last'.reqs[1].id = last'.args.id
             /\ batch_exports' = batch_exports
             /\ last'.reqs[1].response # "ok" =>
                   /\ last'.outcome # "returned"
                   /\ schedules' = schedules]_vars

\* C6 witness: pause of an unpaused BatchExport whose engine call failed: the
\* flag is paused, the schedule is not, and the call raised.
PauseTwoStepWriteWitness ==
    /\ last.op = "pause"
    /\ last.args.before = Some(FALSE)
    /\ last.outcome = "RPCError"
    /\ batch_exports[last.args.id].paused
    /\ schedules[last.args.id] # None
    /\ ~schedules[last.args.id][1].paused

UpdateMissingRunRaises ==
    [][(last'.op = "update_status" /\ last'.args.run_id \notin RunIds) =>
          /\ last'.outcome = "ValueError"
          /\ runs' = runs]_vars

\* C8 witness: an update on a missing id has raised while other runs exist.
UpdateMissingRunRaisesWitness ==
    /\ last.op = "update_status"
    /\ last.outcome = "ValueError"
    /\ last.args.run_id \notin RunIds
    /\ Len(runs) > 0

\* C9: describe of a schedule that no pause or unpause touched since create
\* returns the paused state the BatchExport had when it was created.
DescribeMatchesCreation ==
    (/\ last.op = "describe"
     /\ last.outcome = "returned"
     /\ created[last.args.id] # None
     /\ ~created[last.args.id][1].touched) =>
        /\ last.ret # None
        /\ last.ret[1].paused = created[last.args.id][1].paused

\* C9 witness: describe has returned an untouched schedule created paused.
DescribeMatchesCreationWitness ==
    /\ last.op = "describe"
    /\ last.outcome = "returned"
    /\ created[last.args.id] = Some([paused |-> TRUE, touched |-> FALSE])

\* C10: with operations executed one at a time, while no engine call has
\* failed and no pause/unpause is in progress, the local paused flag of every
\* BatchExport that has a schedule equals the schedule's paused state.
PausedFlagInSync ==
    (~engineFailed /\ AllIdle) =>
        \A id \in BatchExportIds :
            schedules[id] # None => batch_exports[id].paused = schedules[id][1].paused

\* C10 witness: an unpause has just returned on a schedule created paused, no
\* engine call has failed, and both BatchExports have schedules.
PausedFlagInSyncWitness ==
    /\ ~engineFailed
    /\ AllIdle
    /\ last.op = "unpause"
    /\ last.outcome = "returned"
    /\ created[last.args.id] # None
    /\ created[last.args.id][1].paused
    /\ \A id \in BatchExportIds : schedules[id] # None

\* C11: create issues its create-schedule request with the schedule id and
\* the action id both equal to the BatchExport's id, so every schedule the
\* engine holds sits under the id of the one BatchExport it was created for.
ScheduleIdIsBatchExportId ==
    /\ (last.op = "create" /\ last.reqs # <<>>) =>
          /\ last.reqs[1].id = last.args.id
          /\ last.reqs[1].schedule.action_id = last.args.id
    /\ \A sid \in ScheduleIds :
          schedules[sid] # None =>
             /\ sid \in BatchExportIds
             /\ schedules[sid][1].action_id = sid
             /\ schedules[sid][1].input.batch_export_id = sid

\* C11 witness: create has just returned and both BatchExports have their
\* own schedule.
ScheduleIdIsBatchExportIdWitness ==
    /\ last.op = "create"
    /\ last.outcome = "returned"
    /\ \A id \in BatchExportIds : schedules[id] # None

\* C12: create for an id that already has a schedule issues one
\* create-schedule request, raises the engine's conflict error (or its
\* transient failure) and leaves every schedule as it was.
CreateConflictRaises ==
    [][(/\ last'.op = "create"
        /\ last'.reqs # <<>>
        /\ schedules[last'.args.id] # None) =>
          /\ Len(last'.reqs) = 1
          /\ last'.outcome \in {"ScheduleAlreadyRunningError", "RPCError"}
          /\ last'.reqs[1].response = "already_exists" =>
                last'.outcome = "ScheduleAlreadyRunningError"
          /\ schedules' = schedules]_vars

\* C12 witness: a create has raised the conflict error on a schedule whose
\* paused state differs from the flag the new definition carries.
CreateConflictRaisesWitness ==
    /\ last.op = "create"
    /\ last.outcome = "ScheduleAlreadyRunningError"
    /\ schedules[last.args.id] # None
    /\ schedules[last.args.id][1].paused # batch_exports[last.args.id].paused

\* C13: no backfill call, whatever its outcome, changes a schedule in the
\* engine or a local paused flag.
BackfillLeavesSchedules ==
    [][last'.op = "backfill" =>
          /\ schedules' = schedules
          /\ batch_exports' = batch_exports]_vars

\* C13 witness: a backfill has returned for a BatchExport whose schedule
\* exists and is paused.
BackfillLeavesSchedulesWitness ==
    /\ last.op = "backfill"
    /\ last.outcome = "returned"
    /\ schedules[last.args.id] # None
    /\ schedules[last.args.id][1].paused
    /\ batch_exports[last.args.id].paused

\* C14: the row backfill creates has its workflow id and run id unset; the
\* row create_run creates has both set to the ids of the execution that
\* called it and has status STARTING; no row has one of the two ids without
\* the other.
WorkflowIdsSetAtStart ==
    [][/\ (last'.op = "backfill" /\ Len(runs') = Len(runs) + 1) =>
             /\ runs'[Len(runs')].workflow_id = None
             /\ runs'[Len(runs')].run_id = None
       /\ (last'.op = "create_run" /\ last'.outcome = "returned") =>
             /\ Len(runs') = Len(runs) + 1
             /\ runs'[Len(runs')].workflow_id = Some(last'.args.workflow_id)
             /\ runs'[Len(runs')].run_id = Some(last'.args.run_id)
             /\ runs'[Len(runs')].status = "Starting"
             /\ \E x \in WorkflowExecutions :
                   /\ x.workflow_id = last'.args.workflow_id
                   /\ x.run_id = last'.args.run_id
       /\ \A i \in 1..Len(runs') :
             (runs'[i].workflow_id = None) <=> (runs'[i].run_id = None)]_vars

\* C14 witness: the store holds a row created by backfill, with no ids, and
\* a row created by create_run, with the ids of its execution.
WorkflowIdsSetAtStartWitness ==
    /\ Len(runs) = 2
    /\ runs[1].workflow_id = None
    /\ runs[1].run_id = None
    /\ runs[2].workflow_id # None
    /\ runs[2].status = "Starting"
    /\ last.op = "create_run"

DeleteOnlyRemovesSchedule ==
    [][last'.op = "delete" =>
          /\ batch_exports' = batch_exports
          /\ runs' = runs
          /\ executions' = executions
          /\ \A sid \in ScheduleIds \ {last'.args.id} : schedules'[sid] = schedules[sid]
          /\ last'.outcome = "returned" => schedules'[last'.args.id] = None
          /\ last'.outcome # "returned" => schedules' = schedules]_vars

\* C16 witness: a delete has returned, the schedule is gone, and the
\* BatchExport still has its paused flag set and a run record.
DeleteOnlyRemovesScheduleWitness ==
    /\ last.op = "delete"
    /\ last.outcome = "returned"
    /\ schedules[last.args.id] = None
    /\ batch_exports[last.args.id].paused
    /\ \E i \in 1..Len(runs) : runs[i].batch_export_id = last.args.id

\* C17: the update_export_run_status activity, given the id of an existing
\* run whose status is not terminal, completes without error and leaves that
\* run with the given status.
ActivityUpdatesStatus ==
    [][(/\ last'.op = "update_export_run_status"
        /\ \E i \in 1..Len(runs) :
              runs[i].id = last'.args.run_id /\ runs[i].status \notin Terminal) =>
          /\ last'.outcome = "returned"
          /\ \A i \in 1..Len(runs) :
                runs[i].id = last'.args.run_id => runs'[i].status = last'.args.status]_vars

\* C18: the workflow input backfill builds for a BatchExport carries the
\* team_id of the input create builds for it, the id of the team that owns
\* the export, and the same batch_export_id and destination configuration.
BackfillInputsMatchCreate ==
    (last.op = "backfill" /\ last.reqs # <<>>) =>
        /\ last.reqs[1].input.team_id = TeamOf[last.args.id]
        /\ last.reqs[1].input.team_id = CreateInputs(last.args.id).team_id
        /\ last.reqs[1].input.batch_export_id = CreateInputs(last.args.id).batch_export_id
        /\ last.reqs[1].input.bucket_name = CreateInputs(last.args.id).bucket_name

\* Rows that stand for execution x: the row whose id is the execution's id
\* (created by backfill beforehand) and the rows carrying its workflow id and
\* run id (created by its create_export_run calls).
RecordsOf(x) ==
    {i \in 1..Len(runs) :
        \/ runs[i].id = x.workflow_id
        \/ /\ runs[i].workflow_id = Some(x.workflow_id)
           /\ runs[i].run_id = Some(x.run_id)}

\* C19: no two run records refer to the same workflow execution.
OneRecordPerExecution ==
    \A x \in WorkflowExecutions : Cardinality(RecordsOf(x)) <= 1

\* C20: when a pause and an unpause of one BatchExport have both returned,
\* in whatever order their four steps ran, and no engine call has failed, the
\* local paused flag of that BatchExport equals its schedule's paused state.
RacingPauseUnpauseInSync ==
    (/\ last.op \in {"pause", "unpause"}
     /\ AllIdle
     /\ ~engineFailed
     /\ schedules[last.args.id] # None) =>
        batch_exports[last.args.id].paused = schedules[last.args.id][1].paused

\* C21: set_high_watermark stores the count of tiles without a hash only when
\* no non-zero watermark is stored, so a watermark that is set keeps its value
\* when the migration is restarted; the key is removed only by
\* unset_high_watermark, which runs as the last of the three operations.
WatermarkKeptUntilUnset ==
    [][/\ last'.op = "set_high_watermark" =>
            redis' = IF GetHighWatermark = 0
                     THEN Some(RedisText(Cardinality(TilesWithNoHash)))
                     ELSE redis
       /\ (GetHighWatermark # 0 /\ last'.op # "unset_high_watermark") => redis' = redis
       /\ (redis # None /\ redis' = None) => last'.op = "unset_high_watermark"
       /\ last'.op = "unset_high_watermark" =>
            /\ Operations[operation] = "unset_high_watermark"
            /\ operation = Len(Operations)
            /\ operation' = Completed]_vars

\* set_high_watermark has run again after tiles were processed, and the
\* stored watermark is still the larger count of the first run.
WatermarkKeptUntilUnsetWitness ==
    /\ last.op = "set_high_watermark"
    /\ GetHighWatermark > Cardinality(TilesWithNoHash)
    /\ IsRequired

\* C22: set_filters_hashes processes at most one page of tiles without a hash
\* at a time, in id order, and once all operations of the migration have
\* completed no tile has filters_hash unset (is_required is false), whatever
\* save() did.
CompletedMeansNoTileUnhashed ==
    /\ page # None =>
          /\ Len(page[1]) <= PageSize
          /\ \A i, j \in 1..Len(page[1]) : i < j => page[1][i] < page[1][j]
    /\ operation = Completed => ~IsRequired

\* C23: while the migration runs (the watermark has been set and not yet
\* unset), progress returns a percentage between 0 and 100 without raising,
\* it is 100 when no tile lacks a filters hash, and saving tiles never
\* lowers it.
ProgressIsRisingPercentage ==
    [][/\ (last'.op = "progress" /\ operation \in 2..3) =>
            /\ last'.outcome = "returned"
            /\ last'.ret[1] \in 0..100
            /\ ~IsRequired => last'.ret[1] = 100
       /\ (last'.op = "save" /\ GetHighWatermark # 0) =>
            ProgressValue(Cardinality(TilesWithNoHash'), GetHighWatermark)
               >= ProgressValue(Cardinality(TilesWithNoHash), GetHighWatermark)]_vars
====
